---------------------------- MODULE Spec2Model ----------------------------
(***************************************************************************)
(* A model of timeseries-mock (src/app.py): the configuration compiler     *)
(* (_parse_component, _parse_structure, _parse_composite,                  *)
(* _parse_observations, parse_configuration) and the simulation loop of    *)
(* main().                                                                 *)
(*                                                                         *)
(* Python dictionaries are TLA+ functions whose DOMAIN is the set of keys  *)
(* present ('k' in d  is  "k" \in DOMAIN d).  Python lists and NumPy       *)
(* vectors are sequences.  Strings that the code parses are sequences of   *)
(* one-character strings.  A call that raises returns [error |-> class].   *)
(***************************************************************************)
EXTENDS Integers, Sequences, FiniteSets, TLC

VARIABLES
    input,         \* the argument of the operation under study (for main: the
                   \* dictionary _read_conf returned, or NoConf)
    ret,           \* what a parse function returned or raised (NotCalled before)
    pc,            \* position of the program
    model,         \* main(): model
    state,         \* main(): state
    _state,        \* main(): _state
    period,        \* main(): period
    name,          \* main(): name
    anomalies,     \* main(): anomalies
    y,             \* main(): y
    sink,          \* the Kafka sink: number of send() calls and the last payload
    slept,         \* argument of the last time.sleep() call (0 before any)
    lastIO,        \* history: the last of "send"/"sleep" that happened
    draws,         \* history: random.random() results of the current tick's
                   \* anomaly applications (0 where no trial was drawn)
    returned,      \* history: value returned by the last model.state() call
    prevReturned,  \* history: value returned by the model.state() call before it
    argLog,        \* history: argument of the last model.state() call
    calls,         \* history: "none", "first" or "later" model.state() call made
    tickState      \* history: state at the top of the current loop iteration

vars == <<input, ret, pc, model, state, _state, period, name, anomalies, y,
          sink, slept, lastIO, draws, returned, prevReturned, argLog, calls,
          tickState>>

-----------------------------------------------------------------------------
(* Bounds of the model *)

\* Probabilities are counted in units of 1/ProbUnit; random.random() returns
\* one of 0/ProbUnit .. (ProbUnit-1)/ProbUnit, i.e. a value in [0, 1).
ProbUnit == 2

\* Latent values drawn by the prior sample and by model.state(): 1..MaxValue.
MaxValue == 2

\* Longest structure list, longest compose list, largest replicate count.
MaxComponents == 2
MaxElements == 2
MaxReplicate == 2

\* Saturation of the sink's send counter.
MaxSends == 2

-----------------------------------------------------------------------------
(* Generic helpers *)

RECURSIVE Flatten(_)
Flatten(ss) == IF ss = <<>> THEN <<>> ELSE Head(ss) \o Flatten(Tail(ss))

\* list * n
RECURSIVE Repeat(_, _)
Repeat(s, n) == IF n <= 0 THEN <<>> ELSE s \o Repeat(s, n - 1)

SeqsUpTo(S, n) == UNION {[1..k -> S] : k \in 1..n}

IsError(r) == "error" \in DOMAIN r
Raise(cls) == [error |-> cls]

NotCalled == [notcalled |-> TRUE]
None == [none |-> TRUE]

\* np.identity(n) * w  /  np.eye(n)
Identity(n, w) == [i \in 1..n |-> [j \in 1..n |-> IF i = j THEN w ELSE 0]]
np_eye(n) == Identity(n, 1)

\* W.shape[0]
Shape0(W) == Len(W)

\* Block-diagonal combination of two square matrices.
BlockDiag(A, B) ==
    [i \in 1..(Len(A) + Len(B)) |->
       [j \in 1..(Len(A) + Len(B)) |->
          IF i <= Len(A) /\ j <= Len(A) THEN A[i][j]
          ELSE IF i > Len(A) /\ j > Len(A) THEN B[i - Len(A)][j - Len(A)]
          ELSE 0]]

-----------------------------------------------------------------------------
(* str.split(',') and float(str) *)

\* str.split(sep): the fields between separators; "" gives [""].
\* c joined to the first field of fields
SplitPrepend(c, fields) == << <<c>> \o Head(fields) >> \o Tail(fields)

RECURSIVE Split(_, _)
Split(s, sep) ==
    IF s = <<>> THEN << <<>> >>
    ELSE IF Head(s) = sep
    THEN << <<>> >> \o Split(Tail(s), sep)
    ELSE SplitPrepend(Head(s), Split(Tail(s), sep))

Digits == {"0", "1", "2", "3", "4", "5", "6", "7", "8", "9"}

DigitValue(c) ==
    CASE c = "0" -> 0 [] c = "1" -> 1 [] c = "2" -> 2 [] c = "3" -> 3
      [] c = "4" -> 4 [] c = "5" -> 5 [] c = "6" -> 6 [] c = "7" -> 7
      [] c = "8" -> 8 [] c = "9" -> 9

\* float(s) for a string of decimal digits; anything else raises ValueError.
IsFloatString(s) == s # <<>> /\ \A i \in DOMAIN s : s[i] \in Digits

RECURSIVE ParseFloat(_)
ParseFloat(s) ==
    IF s = <<>> THEN 0
    ELSE 10 * ParseFloat(SubSeq(s, 1, Len(s) - 1)) + DigitValue(s[Len(s)])

-----------------------------------------------------------------------------
(* pssm.structure.UnivariateStructure, as far as app.py reads it: the noise *)
(* covariance W (whose side is the latent dimension) and the blocks summed. *)

UnivariateStructure_locally_constant(W) ==
    [blocks |-> << [type |-> "locally_constant"] >>, W |-> Identity(1, W)]

UnivariateStructure_cyclic_fourier(p, harmonics, W) ==
    [blocks |-> << [type |-> "cyclic_fourier", period |-> p,
                    harmonics |-> harmonics] >>,
     W |-> W]

UnivariateStructure_arma(p, betas, W) ==
    [blocks |-> << [type |-> "arma", betas |-> betas] >>, W |-> Identity(p, W)]

\* structure x + structure y
StructureAdd(a, b) == [blocks |-> a.blocks \o b.blocks, W |-> BlockDiag(a.W, b.W)]

-----------------------------------------------------------------------------
(* _parse_component *)

\* lambda x: x
IdentityAnomaly == [kind |-> "identity"]

\* lambda x: x * float(anom_conf['scale'])
\*           if random.random() < anom_conf['probability'] else x
ScaleAnomaly(anom_conf) ==
    [kind |-> "scale", scale |-> anom_conf.scale,
     probability |-> anom_conf.probability]

\* [conf['start']] * n
StartMean(conf, n) == [i \in 1..n |-> conf.start]

\* nharmonics of a season component (lines 49-52)
SeasonHarmonicsOffByOne(conf) ==
    IF "harmonics" \in DOMAIN conf THEN conf.harmonics ELSE 2

SeasonHarmonics(conf) ==
    IF "harmonics" \in DOMAIN conf THEN conf.harmonics ELSE 3

\* Lines 53-58, given nharmonics and W.
SeasonBlock(conf, nharmonics, W) ==
    [structure |-> UnivariateStructure_cyclic_fourier(conf.period, nharmonics, W),
     m0 |-> StartMean(conf, Shape0(W))]

\* Lines 64-68, given the coefficients.
ArmaBlock(conf, coefficients) ==
    [structure |-> UnivariateStructure_arma(Len(coefficients), coefficients,
                                            conf.noise),
     m0 |-> StartMean(conf, Len(coefficients))]

\* Line 61: [float(p) for p in fields]; float raises ValueError on a field
\* that is no number.
ArmaFromFields(conf, fields) ==
    IF \E i \in DOMAIN fields : ~IsFloatString(fields[i])
    THEN Raise("ValueError")
    ELSE ArmaBlock(conf, [i \in DOMAIN fields |-> ParseFloat(fields[i])])

\* The type dispatch (lines 40-70): the structure and m0, or ValueError.
ComponentBlock(conf) ==
    IF conf.type = "mean" THEN
        [structure |-> UnivariateStructure_locally_constant(conf.noise),
         m0 |-> <<conf.start>>]
    ELSE IF conf.type = "season" THEN
        SeasonBlock(conf, SeasonHarmonics(conf),
                    Identity(2 * SeasonHarmonics(conf), conf.noise))
    ELSE IF conf.type = "arma" THEN
        IF "coefficients" \in DOMAIN conf
        THEN ArmaFromFields(conf, Split(conf.coefficients, ","))
        ELSE ArmaBlock(conf, <<1>>)
    ELSE Raise("ValueError")

\* Lines 72-88, given the block b built above.  With an `anomalies` block
\* that lacks a key no branch binds the local `anomalies`, and
\* logging.debug(anomalies) at line 86 raises UnboundLocalError.
ComponentAnomalies(conf, b) ==
    IF IsError(b) THEN b
    ELSE IF "anomalies" \in DOMAIN conf THEN
        IF "probability" \in DOMAIN conf.anomalies
           /\ "scale" \in DOMAIN conf.anomalies
        THEN [structure |-> b.structure,
              anomalies |-> [i \in 1..Shape0(b.structure.W) |->
                                ScaleAnomaly(conf.anomalies)],
              m0 |-> b.m0]
        ELSE Raise("UnboundLocalError")
    ELSE [structure |-> b.structure,
          anomalies |-> [i \in 1..Shape0(b.structure.W) |-> IdentityAnomaly],
          m0 |-> b.m0]

_parse_component(conf) == ComponentAnomalies(conf, ComponentBlock(conf))

-----------------------------------------------------------------------------
(* numpy arrays: [shape, data] (numeric, row-major) or [shape, objects] *)

NumArray(shape, data) == [shape |-> shape, data |-> data]
ObjArray(list) == [shape |-> <<Len(list)>>, objects |-> list]
IsObjArray(a) == "objects" \in DOMAIN a

\* len(a)
np_len(a) == a.shape[1]

-----------------------------------------------------------------------------
(* _parse_structure *)

\* One iteration of the loop of lines 96-100: the locals acc extended by the
\* parsed component c, or the exception raised so far.
StructureStep(acc, c) ==
    IF IsError(acc) THEN acc
    ELSE IF IsError(c) THEN c
    ELSE [structures |-> Append(acc.structures, c.structure),
          m0 |-> acc.m0 \o c.m0,
          anomalies |-> acc.anomalies \o c.anomalies]

\* The loop over the first n components.
RECURSIVE StructureLoop(_, _)
StructureLoop(conf, n) ==
    IF n = 0 THEN [structures |-> <<>>, m0 |-> <<>>, anomalies |-> <<>>]
    ELSE StructureStep(StructureLoop(conf, n - 1), _parse_component(conf[n]))

\* reduce(lambda x, y: x + y, structures), structures non-empty
RECURSIVE ReduceAdd(_)
ReduceAdd(structures) ==
    IF Len(structures) = 1 THEN structures[1]
    ELSE StructureAdd(ReduceAdd(SubSeq(structures, 1, Len(structures) - 1)),
                      structures[Len(structures)])

\* C0 = np.eye(len(m0))
PriorCovarianceShort(m0) == np_eye(np_len(m0) - 1)

PriorCovariance(m0) == np_eye(np_len(m0))

\* Lines 102-105, given the locals the loop left.
StructureReturn(loop) ==
    IF IsError(loop) THEN loop
    ELSE [structure |-> ReduceAdd(loop.structures),
          m0 |-> NumArray(<<Len(loop.m0)>>, loop.m0),
          C0 |-> PriorCovariance(NumArray(<<Len(loop.m0)>>, loop.m0)),
          anomalies |-> loop.anomalies]

_parse_structure(conf) == StructureReturn(StructureLoop(conf, Len(conf)))

-----------------------------------------------------------------------------
(* _parse_observations; oid is the identity of the model object it creates. *)
(* Observation noise variances are counted in tenths (V = 1.4 is 14).       *)

_parse_observations_default(obs, structure, oid) ==
    [kind |-> "NormalDLM", id |-> oid, structure |-> structure, V |-> 10]

_parse_observations(obs, structure, oid) ==
    IF obs.type = "continuous" THEN
        [kind |-> "NormalDLM", id |-> oid, structure |-> structure,
         V |-> obs.noise]
    ELSE IF obs.type = "discrete" THEN
        [kind |-> "PoissonDLM", id |-> oid, structure |-> structure]
    ELSE IF obs.type = "categorical" THEN
        IF "values" \in DOMAIN obs THEN
            [kind |-> "BinomialTransformer", id |-> oid,
             structure |-> structure, source |-> Split(obs.values, ",")]
        ELSE IF "categories" \in DOMAIN obs THEN
            [kind |-> "BinomialDLM", id |-> oid, structure |-> structure,
             categories |-> obs.categories]
        ELSE Raise("ValueError")
    ELSE Raise("ValueError")

-----------------------------------------------------------------------------
(* _parse_composite *)

\* An entry of the Python list prior_mean: a number, or a whole ndarray.
Scalar(x) == [scalar |-> x]
Arr(a) == [array |-> a]
IsArr(e) == "array" \in DOMAIN e

\* np.array(list), as the set of outcomes NumPy can produce.  A list of
\* numbers gives a vector; a list of equally long arrays gives a 2-d array.
\* A ragged list (numbers mixed with arrays, or arrays of different lengths)
\* depends on the NumPy release: ValueError, an object array of the list's
\* length, or (all arrays of size 1) a numeric vector.
np_array(list) ==
    IF \A i \in DOMAIN list : ~IsArr(list[i]) THEN
        {NumArray(<<Len(list)>>, [i \in DOMAIN list |-> list[i].scalar])}
    ELSE IF \A i \in DOMAIN list :
                IsArr(list[i]) /\ Len(list[i].array) = Len(list[1].array) THEN
        {NumArray(<<Len(list), Len(list[1].array)>>,
                  Flatten([i \in DOMAIN list |-> list[i].array]))}
    ELSE
        {Raise("ValueError"), ObjArray(list)}
        \cup (IF \A i \in DOMAIN list : IsArr(list[i]) => Len(list[i].array) = 1
              THEN {NumArray(<<Len(list)>>,
                             [i \in DOMAIN list |->
                                 IF IsArr(list[i]) THEN list[i].array[1]
                                 ELSE list[i].scalar])}
              ELSE {})

\* prior_mean.extend([m0] * replicate): the ndarray itself, replicate times
ReplicatedMean(m0, replicate) == Repeat(<<Arr(m0.data)>>, replicate)

\* prior_mean.extend(m0): the entries of the ndarray
PlainMean(m0) == [i \in DOMAIN m0.data |-> Scalar(m0.data[i])]

\* anomalies * replicate
ReplicatedAnomalies(anoms, replicate) == Repeat(anoms, replicate)

\* [model] * replicate
ReplicatedModelsShort(m, replicate) == Repeat(<<m>>, replicate - 1)

ReplicatedModels(m, replicate) == Repeat(<<m>>, replicate)

CompositeTransformer(models) == [kind |-> "CompositeTransformer", models |-> models]

\* Lines 116-119 / 123-126: the locals acc extended by an element whose
\* structure parsed to s and whose model is m.
CompositeExtend(acc, element, s, m) ==
    IF IsError(m) THEN m
    ELSE IF "replicate" \in DOMAIN element THEN
        [models |-> acc.models \o ReplicatedModels(m, element.replicate),
         prior_mean |-> acc.prior_mean
                        \o ReplicatedMean(s.m0, element.replicate),
         anomaly_vector |-> acc.anomaly_vector
                        \o ReplicatedAnomalies(s.anomalies, element.replicate)]
    ELSE
        [models |-> Append(acc.models, m),
         prior_mean |-> acc.prior_mean \o PlainMean(s.m0),
         anomaly_vector |-> acc.anomaly_vector \o s.anomalies]

\* One iteration of the loop of lines 112-126 for element number n, whose
\* structure parsed to s: the one model object it builds is number n.
CompositeStep(acc, element, n, s) ==
    IF IsError(acc) THEN acc
    ELSE IF IsError(s) THEN s
    ELSE CompositeExtend(acc, element, s,
            _parse_observations(element.observations, s.structure, n))

\* The loop over the first n elements.
RECURSIVE CompositeLoop(_, _)
CompositeLoop(conf, n) ==
    IF n = 0 THEN [models |-> <<>>, prior_mean |-> <<>>, anomaly_vector |-> <<>>]
    ELSE CompositeStep(CompositeLoop(conf, n - 1), conf[n], n,
                       _parse_structure(conf[n].structure))

\* Lines 128-131, given the locals the loop left and m0 = np.array(prior_mean).
CompositeReturn(loop, m0) ==
    IF IsError(m0) THEN m0
    ELSE [model |-> CompositeTransformer(loop.models),
          m0 |-> m0,
          C0 |-> PriorCovariance(m0),
          anomalies |-> loop.anomaly_vector]

CompositeOutcomes(loop) ==
    IF IsError(loop) THEN {loop}
    ELSE {CompositeReturn(loop, m0) : m0 \in np_array(loop.prior_mean)}

\* The set of outcomes of _parse_composite(conf).
_parse_composite(conf) == CompositeOutcomes(CompositeLoop(conf, Len(conf)))

-----------------------------------------------------------------------------
(* parse_configuration *)

StateValues == 1..MaxValue

Sample(v) == [sample |-> v]

\* mvn(m0, C0).rvs(): SciPy takes dim = mean.size (Len(m0.data)), reshapes a mean of size 1
\* to (1,), and raises ValueError unless the mean is a vector of length dim
\* and the covariance is dim x dim.  A sample of dimension 1 is a scalar,
\* kept here as a vector of one entry (np.size is 1 for both).
mvn_rvs(m0, C0) ==
    IF IsObjArray(m0) THEN {Raise("ValueError")}
    ELSE IF Len(m0.data) = 1 THEN
        IF Len(C0) = 1
        THEN {Sample(<<v>>) : v \in StateValues}
        ELSE {Raise("ValueError")}
    ELSE IF Len(m0.shape) # 1 \/ m0.shape[1] # Len(m0.data)
            \/ Len(C0) # Len(m0.data)
    THEN {Raise("ValueError")}
    ELSE {Sample(v) : v \in [1..Len(m0.data) -> StateValues]}

\* Lines 164-165, given the parsed structure s and the model m.
SingleReturn(s, m) ==
    IF IsError(s) THEN {s}
    ELSE IF IsError(m) THEN {m}
    ELSE {[model |-> m, m0 |-> s.m0, C0 |-> s.C0, anomalies |-> s.anomalies]}

SingleModel(conf, s) ==
    IF IsError(s) THEN {s}
    ELSE SingleReturn(s, _parse_observations(conf.observations, s.structure, 1))

\* The set of outcomes of lines 161-165.
BuildModel(conf) ==
    IF "compose" \in DOMAIN conf THEN _parse_composite(conf.compose)
    ELSE SingleModel(conf, _parse_structure(conf.structure))

\* Lines 167-173, given what lines 161-165 built and the sample drawn.
ConfigurationReturn(conf, b, st) ==
    IF IsError(st) THEN st
    ELSE [model |-> b.model, state |-> st.sample,
          period |-> conf.period, name |-> conf.name,
          anomalies |-> b.anomalies]

\* The set of outcomes of parse_configuration(conf).
parse_configuration(conf) ==
    UNION {IF IsError(b) THEN {b}
           ELSE {ConfigurationReturn(conf, b, st) : st \in mvn_rvs(b.m0, b.C0)}
           : b \in BuildModel(conf)}

-----------------------------------------------------------------------------
(* Inputs *)

NoiseValues == {1, 2}
StartValues == {0, 1}
ScaleValues == {2, 3}

AnomalyBlocks ==
    {[probability |-> p, scale |-> s] : p \in 0..ProbUnit, s \in ScaleValues}

PartialAnomalyBlocks == {[probability |-> 1], [scale |-> 2]}

CoefficientStrings ==
    {<<"1">>, <<"1", ",", "5">>, <<"5", ",", "1", ",", "5">>, <<"1", "2">>,
     <<"1", ",", ",", "5">>}

WithKey(d, k, v) == [x \in DOMAIN d \cup {k} |-> IF x = k THEN v ELSE d[x]]

BaseComponents ==
    UNION {
      {[type |-> "mean", noise |-> n, start |-> s],
       [type |-> "trend", noise |-> n, start |-> s],
       [type |-> "season", noise |-> n, start |-> s, period |-> 4],
       [type |-> "arma", noise |-> n, start |-> s]}
      \cup {[type |-> "season", noise |-> n, start |-> s, period |-> 4,
             harmonics |-> h] : h \in 1..2}
      \cup {[type |-> "arma", noise |-> n, start |-> s, coefficients |-> c]
            : c \in CoefficientStrings}
      : <<n, s>> \in NoiseValues \X StartValues}

ComponentSpecs ==
    BaseComponents
    \cup {WithKey(c, "anomalies", a)
          : <<c, a>> \in BaseComponents \X (AnomalyBlocks \cup PartialAnomalyBlocks)}

-----------------------------------------------------------------------------
(* The pure functions, each applied once to an input of a bounded set *)

Idle ==
    /\ model = None /\ state = <<>> /\ _state = <<>> /\ period = 0
    /\ name = "" /\ anomalies = <<>> /\ y = None
    /\ sink = [count |-> 0, last |-> None] /\ slept = 0 /\ lastIO = "none"
    /\ draws = <<>> /\ returned = <<>> /\ prevReturned = <<>>
    /\ argLog = <<>> /\ calls = "none" /\ tickState = <<>>

loopVars == <<model, state, _state, period, name, anomalies, y, sink, slept,
              lastIO, draws, returned, prevReturned, argLog, calls, tickState>>

InitComponent ==
    /\ input \in ComponentSpecs
    /\ ret = NotCalled
    /\ pc = "call"
    /\ Idle

CallParseComponent ==
    /\ pc = "call"
    /\ ret' = _parse_component(input)
    /\ pc' = "returned"
    /\ UNCHANGED <<input, loopVars>>

NextComponent == CallParseComponent

SpecComponent == InitComponent /\ [][NextComponent]_vars

StructureComponents ==
    {[type |-> "mean", noise |-> 1, start |-> 0],
     [type |-> "mean", noise |-> 2, start |-> 1,
      anomalies |-> [probability |-> 1, scale |-> 2]],
     [type |-> "season", noise |-> 1, start |-> 0, period |-> 4, harmonics |-> 1,
      anomalies |-> [probability |-> ProbUnit, scale |-> 3]],
     [type |-> "season", noise |-> 2, start |-> 1, period |-> 4],
     [type |-> "arma", noise |-> 1, start |-> 1,
      coefficients |-> <<"1", ",", "5">>,
      anomalies |-> [probability |-> 0, scale |-> 2]],
     [type |-> "arma", noise |-> 1, start |-> 0],
     [type |-> "trend", noise |-> 1, start |-> 0],
     [type |-> "mean", noise |-> 1, start |-> 0,
      anomalies |-> [probability |-> 1]]}

StructureConfs == SeqsUpTo(StructureComponents, MaxComponents)

InitStructure ==
    /\ input \in StructureConfs
    /\ ret = NotCalled
    /\ pc = "call"
    /\ Idle

CallParseStructure ==
    /\ pc = "call"
    /\ ret' = _parse_structure(input)
    /\ pc' = "returned"
    /\ UNCHANGED <<input, loopVars>>

NextStructure == CallParseStructure

SpecStructure == InitStructure /\ [][NextStructure]_vars

CompositeStructures ==
    {<< [type |-> "mean", noise |-> 1, start |-> 0] >>,
     << [type |-> "season", noise |-> 1, start |-> 1, period |-> 4,
         harmonics |-> 1,
         anomalies |-> [probability |-> 1, scale |-> 2]] >>,
     << [type |-> "mean", noise |-> 1, start |-> 1,
         anomalies |-> [probability |-> ProbUnit, scale |-> 3]],
        [type |-> "arma", noise |-> 1, start |-> 0,
         coefficients |-> <<"1", ",", "5">>] >>}

CompositeObservations ==
    {[type |-> "continuous", noise |-> 1],
     [type |-> "categorical", values |-> <<"a", ",", "b">>],
     [type |-> "ordinal"]}

CompositeElements ==
    {[structure |-> s, observations |-> o]
        : <<s, o>> \in CompositeStructures \X CompositeObservations}
    \cup {[replicate |-> r, structure |-> s, observations |-> o]
        : <<r, s, o>> \in (1..MaxReplicate) \X CompositeStructures
                          \X CompositeObservations}

CompositeConfs == SeqsUpTo(CompositeElements, MaxElements)

InitComposite ==
    /\ input \in CompositeConfs
    /\ ret = NotCalled
    /\ pc = "call"
    /\ Idle

CallParseComposite ==
    /\ pc = "call"
    /\ \E r \in _parse_composite(input) : ret' = r
    /\ pc' = "returned"
    /\ UNCHANGED <<input, loopVars>>

NextComposite == CallParseComposite

SpecComposite == InitComposite /\ [][NextComposite]_vars

-----------------------------------------------------------------------------
(* What the documentation states about a component spec *)

CommaCount(s) == Cardinality({i \in DOMAIN s : s[i] = ","})

\* Recognised type, parseable coefficients, anomalies block absent or complete.
ValidComponent(c) ==
    /\ c.type \in {"mean", "season", "arma"}
    /\ "coefficients" \in DOMAIN c =>
          /\ c.coefficients # <<>>
          /\ c.coefficients[1] # ","
          /\ c.coefficients[Len(c.coefficients)] # ","
          /\ \A i \in 1..(Len(c.coefficients) - 1) :
                ~(c.coefficients[i] = "," /\ c.coefficients[i + 1] = ",")
    /\ "anomalies" \in DOMAIN c =>
          {"probability", "scale"} \subseteq DOMAIN c.anomalies

PartialAnomalies(c) ==
    /\ "anomalies" \in DOMAIN c
    /\ ~({"probability", "scale"} \subseteq DOMAIN c.anomalies)

\* 1 for mean, 2h for season (h = 3 by default), p for arma (p = 1 by default)
DocumentedDimension(c) ==
    CASE c.type = "mean" -> 1
      [] c.type = "season" ->
            IF "harmonics" \in DOMAIN c THEN 2 * c.harmonics ELSE 6
      [] c.type = "arma" ->
            IF "coefficients" \in DOMAIN c
            THEN CommaCount(c.coefficients) + 1 ELSE 1

DocumentedAnomaly(c) ==
    IF "anomalies" \in DOMAIN c
    THEN [kind |-> "scale", scale |-> c.anomalies.scale,
          probability |-> c.anomalies.probability]
    ELSE [kind |-> "identity"]

\* Total documented dimension of the first n components of a structure list.
RECURSIVE DimensionUpTo(_, _)
DimensionUpTo(cs, n) ==
    IF n = 0 THEN 0 ELSE DimensionUpTo(cs, n - 1) + DocumentedDimension(cs[n])

\* The component that owns latent dimension i of a structure list.
Owner(cs, i) == CHOOSE k \in DOMAIN cs :
                    DimensionUpTo(cs, k - 1) < i /\ i <= DimensionUpTo(cs, k)

\* C9: for every valid component spec, _parse_component builds a block whose
\* dimension (the side of its noise covariance) is 1 for mean, 2h for season
\* (h = 3 when harmonics is absent) and p for arma (p = 1, coefficients [1.0],
\* when coefficients is absent); its initial mean has that length with every
\* entry equal to start; a season block's noise covariance is noise x I_2h.
C9_ComponentDimension ==
    (pc = "returned" /\ ValidComponent(input)) =>
        /\ ~IsError(ret)
        /\ LET D == DocumentedDimension(input)
           IN  /\ Shape0(ret.structure.W) = D
               /\ \A i \in 1..D : Len(ret.structure.W[i]) = D
               /\ Len(ret.m0) = D
               /\ \A i \in 1..D : ret.m0[i] = input.start
               /\ input.type = "season" =>
                     \A i, j \in 1..D :
                        ret.structure.W[i][j] = IF i = j THEN input.noise ELSE 0
               /\ (input.type = "arma" /\ "coefficients" \notin DOMAIN input) =>
                     ret.structure.blocks[1].betas = <<1>>

C9_Witness ==
    /\ pc = "returned"
    /\ input.type = "season"
    /\ "harmonics" \notin DOMAIN input
    /\ ~IsError(ret)
    /\ Len(ret.m0) = 6

\* C5 (as claimed): for a component spec whose anomalies block lacks
\* probability or scale, _parse_component returns the block's structure and
\* initial mean together with an empty anomaly-function list, not a failure.
C5_PartialAnomaliesReturn ==
    (/\ pc = "returned"
     /\ input.type \in {"mean", "season", "arma"}
     /\ PartialAnomalies(input)
     /\ ValidComponent([k \in DOMAIN input \ {"anomalies"} |-> input[k]])) =>
        /\ ~IsError(ret)
        /\ ret.anomalies = <<>>
        /\ Len(ret.m0) = DocumentedDimension(input)
        /\ Shape0(ret.structure.W) = DocumentedDimension(input)

Replicas(e) == IF "replicate" \in DOMAIN e THEN e.replicate ELSE 1

ElementDimension(e) == DimensionUpTo(e.structure, Len(e.structure))

\* Total size contributed by the first n elements.
RECURSIVE CompositeSizeUpTo(_, _)
CompositeSizeUpTo(es, n) ==
    IF n = 0 THEN 0
    ELSE CompositeSizeUpTo(es, n - 1) + Replicas(es[n]) * ElementDimension(es[n])

RECURSIVE ReplicasUpTo(_, _)
ReplicasUpTo(es, n) ==
    IF n = 0 THEN 0 ELSE ReplicasUpTo(es, n - 1) + Replicas(es[n])

\* C3 (as claimed): whenever _parse_composite returns, the length of the
\* prior mean, the side of the identity covariance and the number of
\* anomaly functions all equal the sum over the elements of
\* (replicate count, 1 for a plain element) x (dimension of the structure).
C3_CompositeFlatPrior ==
    (pc = "returned" /\ ~IsError(ret)) =>
        LET T == CompositeSizeUpTo(input, Len(input))
        IN  /\ np_len(ret.m0) = T
            /\ Len(ret.C0) = T
            /\ Len(ret.anomalies) = T

\* C4: whenever _parse_composite returns, an element with replicate: N has
\* contributed exactly N entries to the model list, all the one model object
\* built for that element, and N copies of its anomaly fragment to the
\* anomaly-function list; a plain element has contributed one model and one
\* fragment; contributions are in element order.
C4_Replication ==
    (pc = "returned" /\ ~IsError(ret)) =>
        LET models == ret.model.models
            ModelOwner(i) == CHOOSE k \in DOMAIN input :
                ReplicasUpTo(input, k - 1) < i /\ i <= ReplicasUpTo(input, k)
            AnomalyOwner(i) == CHOOSE k \in DOMAIN input :
                /\ CompositeSizeUpTo(input, k - 1) < i
                /\ i <= CompositeSizeUpTo(input, k)
        IN  /\ Len(models) = ReplicasUpTo(input, Len(input))
            /\ \A i \in DOMAIN models :
                  /\ models[i].id = ModelOwner(i)
                  /\ Len(models[i].structure.blocks)
                        = Len(input[ModelOwner(i)].structure)
                  /\ Shape0(models[i].structure.W)
                        = ElementDimension(input[ModelOwner(i)])
                  /\ models[i].kind
                        = (IF input[ModelOwner(i)].observations.type = "continuous"
                           THEN "NormalDLM" ELSE "BinomialTransformer")
            /\ \A i, j \in DOMAIN models :
                  ModelOwner(i) = ModelOwner(j) => models[i] = models[j]
            /\ Len(ret.anomalies) = CompositeSizeUpTo(input, Len(input))
            /\ \A i \in DOMAIN ret.anomalies :
                  LET e == input[AnomalyOwner(i)]
                      o == i - CompositeSizeUpTo(input, AnomalyOwner(i) - 1)
                      d == ((o - 1) % ElementDimension(e)) + 1
                  IN  ret.anomalies[i]
                        = DocumentedAnomaly(e.structure[Owner(e.structure, d)])

C4_Witness ==
    /\ pc = "returned"
    /\ Len(input) = 2
    /\ "replicate" \in DOMAIN input[1]
    /\ input[1].replicate = 2
    /\ Len(input[1].structure) = 2
    /\ "replicate" \notin DOMAIN input[2]
    /\ ~IsError(ret)
    /\ Len(ret.model.models) = 3
    /\ ret.model.models[1].id = ret.model.models[2].id
    /\ Len(ret.anomalies) = 6 + ElementDimension(input[2])

-----------------------------------------------------------------------------
(* main(): the build phase and the simulation loop *)

NoConf == [noconf |-> TRUE]

MeanPlain == [type |-> "mean", noise |-> 1, start |-> 0]

MeanHalf == [type |-> "mean", noise |-> 1, start |-> 1,
             anomalies |-> [probability |-> 1, scale |-> 2]]

MeanAlways == [type |-> "mean", noise |-> 1, start |-> 0,
               anomalies |-> [probability |-> ProbUnit, scale |-> 3]]

MeanNever == [type |-> "mean", noise |-> 1, start |-> 0,
              anomalies |-> [probability |-> 0, scale |-> 2]]

MeanPartial == [type |-> "mean", noise |-> 1, start |-> 0,
                anomalies |-> [probability |-> 1]]

SeasonHalf == [type |-> "season", noise |-> 1, start |-> 0, period |-> 4,
               harmonics |-> 1,
               anomalies |-> [probability |-> 1, scale |-> 2]]

Trend == [type |-> "trend", noise |-> 1, start |-> 0]

Continuous == [type |-> "continuous", noise |-> 14]
Discrete == [type |-> "discrete"]
ByValue == [type |-> "categorical", values |-> <<"a", ",", "b">>]
ByCount == [type |-> "categorical", categories |-> 3]
CategoricalBare == [type |-> "categorical"]
Ordinal == [type |-> "ordinal"]

Single(s, o) == [structure |-> s, observations |-> o, period |-> 2,
                 name |-> "data"]

Compose(es) == [compose |-> es, period |-> 1, name |-> "series"]

Plain(s, o) == [structure |-> s, observations |-> o]

Replicated(r, s, o) == [replicate |-> r, structure |-> s, observations |-> o]

MainConfs ==
    {NoConf,
     Single(<<MeanPlain>>, Continuous),
     Single(<<MeanHalf>>, Discrete),
     Single(<<SeasonHalf>>, Continuous),
     Single(<<MeanAlways, MeanNever>>, ByCount),
     Single(<<MeanPlain, MeanHalf>>, ByValue),
     Single(<<Trend>>, Continuous),
     Single(<<MeanPlain, Trend>>, Discrete),
     Single(<<MeanPlain>>, Ordinal),
     Single(<<MeanHalf>>, CategoricalBare),
     Single(<<MeanPartial>>, Continuous),
     Single(<<MeanPartial, Trend>>, Continuous),
     Compose(<<Plain(<<MeanPlain>>, Continuous),
               Plain(<<MeanHalf>>, Discrete)>>),
     Compose(<<Plain(<<SeasonHalf>>, ByCount)>>),
     Compose(<<Replicated(1, <<MeanHalf>>, Continuous)>>),
     Compose(<<Replicated(2, <<MeanHalf>>, Continuous)>>),
     Compose(<<Replicated(2, <<SeasonHalf>>, ByValue)>>),
     Compose(<<Plain(<<MeanAlways>>, Continuous),
               Replicated(1, <<MeanHalf>>, ByCount)>>),
     Compose(<<Plain(<<MeanPlain>>, Continuous),
               Plain(<<MeanHalf>>, CategoricalBare)>>),
     Compose(<<Replicated(2, <<MeanPlain>>, Ordinal)>>),
     Compose(<<Plain(<<Trend>>, Continuous),
               Plain(<<MeanPlain>>, Continuous)>>)}

\* random.random() < anom_conf['probability']
AnomalyFiresInclusive(r, probability) == r <= probability

AnomalyFires(r, probability) == r < probability

\* Calling an anomaly function on a number; r is what random.random()
\* returns when the function draws.
ApplyAnomaly(f, x, r) ==
    IF f.kind = "scale"
    THEN IF AnomalyFires(r, f.probability) THEN x * f.scale ELSE x
    ELSE x

\* Calling an anomaly function on a whole ndarray (x * scale is elementwise).
ApplyAnomalyToArray(f, x, r) == [i \in DOMAIN x |-> ApplyAnomaly(f, x[i], r)]

\* What random.random() can return in one call of f (0 when f never draws).
DrawSet(f) == IF f.kind = "scale" THEN 0..(ProbUnit - 1) ELSE {0}

\* np.size(state)
np_size(v) == Len(v)

\* Lines 206-217 with the draws rs: _state.
PerturbedState(anoms, st, rs) ==
    IF np_size(st) = 1
    THEN ApplyAnomalyToArray(anoms[1], st, rs[1])
    ELSE [i \in 1..np_size(st) |-> ApplyAnomaly(anoms[i], st[i], rs[i])]

\* The trials drawn in one tick: one for anomalies[0] in the one-dimensional
\* branch, one per dimension otherwise.
TickDraws(anoms, st) ==
    IF np_size(st) = 1
    THEN {<<r>> : r \in DrawSet(anoms[1])}
    ELSE {rs \in [1..np_size(st) -> 0..(ProbUnit - 1)] :
            \A i \in 1..np_size(st) : rs[i] \in DrawSet(anoms[i])}

\* model.observation(v): a pure function of the model and the vector, kept
\* uninterpreted.
observation(m, v) == [by |-> m.kind, observed |-> v]

\* model.state(v): a vector of the size of v.
model_state(m, v) == [1..Len(v) -> StateValues]

\* The argument of model.observation at line 219.
ObservationInputRaw(st, pert) == st

ObservationInput(st, pert) == pert

\* The argument of model.state at line 220.
AdvanceInputPerturbed(st, pert) == pert

AdvanceInput(st, pert) == st

\* json.dumps({'name': name, 'value': value}).encode()
build_message(n, value) == [name |-> n, value |-> value]

\* Where control goes after time.sleep(period): the top of `while True`.
AfterSleepExit == "exit"

AfterSleep == "perturb"

Init ==
    /\ input \in MainConfs
    /\ ret = NotCalled
    /\ pc = "start"
    /\ Idle

\* Lines 189-191: parse_configuration(_read_conf(args.conf)).
ParseConfiguration ==
    /\ pc = "start"
    /\ input # NoConf
    /\ \E r \in parse_configuration(input) :
          IF IsError(r)
          THEN /\ ret' = r
               /\ pc' = "failed"
               /\ UNCHANGED <<model, state, period, name, anomalies>>
          ELSE /\ ret' = [ok |-> TRUE]
               /\ pc' = "producer"
               /\ model' = r.model
               /\ state' = r.state
               /\ period' = r.period
               /\ name' = r.name
               /\ anomalies' = r.anomalies
    /\ UNCHANGED <<input, _state, y, sink, slept, lastIO, draws, returned,
                   prevReturned, argLog, calls, tickState>>

\* Lines 192-198: no configuration file.
DefaultConfiguration ==
    /\ pc = "start"
    /\ input = NoConf
    /\ state' = <<0>>
    /\ model' = [kind |-> "NormalDLM", id |-> 1,
                 structure |-> UnivariateStructure_locally_constant(1),
                 V |-> 14]
    /\ period' = 2
    /\ name' = "data"
    /\ anomalies' = <<IdentityAnomaly>>
    /\ ret' = [ok |-> TRUE]
    /\ pc' = "producer"
    /\ UNCHANGED <<input, _state, y, sink, slept, lastIO, draws, returned,
                   prevReturned, argLog, calls, tickState>>

\* Lines 200-203: KafkaProducer(...).
CreateProducer ==
    /\ pc = "producer"
    /\ pc' = "perturb"
    /\ UNCHANGED <<input, ret, loopVars>>

\* Lines 206-217.
Perturb ==
    /\ pc = "perturb"
    /\ \E rs \in TickDraws(anomalies, state) :
          /\ _state' = PerturbedState(anomalies, state, rs)
          /\ draws' = rs
    /\ tickState' = state
    /\ pc' = "observe"
    /\ UNCHANGED <<input, ret, model, state, period, name, anomalies, y, sink,
                   slept, lastIO, returned, prevReturned, argLog, calls>>

\* Line 219.
Observe ==
    /\ pc = "observe"
    /\ y' = observation(model, ObservationInput(state, _state))
    /\ pc' = "advance"
    /\ UNCHANGED <<input, ret, model, state, _state, period, name, anomalies,
                   sink, slept, lastIO, draws, returned, prevReturned, argLog,
                   calls, tickState>>

\* Line 220.
Advance ==
    /\ pc = "advance"
    /\ \E new \in model_state(model, AdvanceInput(state, _state)) :
          /\ state' = new
          /\ returned' = new
    /\ argLog' = AdvanceInput(state, _state)
    /\ prevReturned' = returned
    /\ calls' = IF calls = "none" THEN "first" ELSE "later"
    /\ pc' = "send"
    /\ UNCHANGED <<input, ret, model, _state, period, name, anomalies, y, sink,
                   slept, lastIO, draws, tickState>>

\* Lines 222-224.
Send ==
    /\ pc = "send"
    /\ sink' = [count |-> IF sink.count < MaxSends THEN sink.count + 1
                          ELSE sink.count,
                last |-> build_message(name, y)]
    /\ lastIO' = "send"
    /\ pc' = "sleep"
    /\ UNCHANGED <<input, ret, model, state, _state, period, name, anomalies,
                   y, slept, draws, returned, prevReturned, argLog, calls,
                   tickState>>

\* Line 225, and back to line 204.
Sleep ==
    /\ pc = "sleep"
    /\ slept' = period
    /\ lastIO' = "sleep"
    /\ pc' = AfterSleep
    /\ UNCHANGED <<input, ret, model, state, _state, period, name, anomalies,
                   y, sink, draws, returned, prevReturned, argLog, calls,
                   tickState>>

Next ==
    \/ ParseConfiguration
    \/ DefaultConfiguration
    \/ CreateProducer
    \/ Perturb
    \/ Observe
    \/ Advance
    \/ Send
    \/ Sleep

Spec == Init /\ [][Next]_vars

\* The process is sequential and, once built, nothing but an external kill
\* stops it: the one enabled step of the loop is eventually taken.
LiveSpec ==
    /\ Spec
    /\ WF_vars(CreateProducer)
    /\ WF_vars(Perturb)
    /\ WF_vars(Observe)
    /\ WF_vars(Advance)
    /\ WF_vars(Send)
    /\ WF_vars(Sleep)

-----------------------------------------------------------------------------
(* Claims about main() *)

Running == {"perturb", "observe", "advance", "send", "sleep"}

\* C1: the vector passed to model.state() at a tick is exactly the value
\* model.state() returned at the tick before; applying the anomaly
\* functions (one-dimensional branch or copy branch) never changes the
\* carried state.
C1_CarriedState ==
    /\ (calls # "none" /\ pc \in {"perturb", "observe", "advance"}) =>
          state = returned
    /\ (calls = "later" /\ pc \in {"send", "sleep"}) => argLog = prevReturned
    /\ pc \in {"observe", "advance"} => state = tickState

C1_Witness ==
    /\ pc = "send"
    /\ calls = "later"
    /\ Len(argLog) = 2
    /\ _state[1] # argLog[1]
    /\ _state[2] # argLog[2]
    /\ argLog = prevReturned

C1_WitnessOneDimension ==
    /\ pc = "send"
    /\ calls = "later"
    /\ Len(argLog) = 1
    /\ _state # argLog

\* The perturbed vector of the tick: entry i is anomaly_i applied to entry i
\* of the state held at the top of the iteration, with the tick's trial i.
PerturbedOf(st) ==
    [i \in DOMAIN st |->
        IF anomalies[i].kind = "scale" /\ draws[i] < anomalies[i].probability
        THEN st[i] * anomalies[i].scale
        ELSE st[i]]

\* C2: at every tick the value placed in the emitted message is
\* model.observation applied to the perturbed vector of that tick, computed
\* from the state held before the tick's advance; it is derived neither from
\* the raw state when an anomaly fired nor from the advanced state.
C2_ObservationOfPerturbed ==
    /\ pc \in {"advance", "send"} =>
          y = [by |-> model.kind, observed |-> PerturbedOf(tickState)]
    /\ (pc = "sleep") =>
          /\ sink.last.value
                = [by |-> model.kind, observed |-> PerturbedOf(tickState)]
          /\ state = returned
          /\ tickState = argLog

C2_Witness ==
    /\ pc = "sleep"
    /\ Len(tickState) = 2
    /\ sink.last.value.observed # tickState
    /\ sink.last.value.observed # state
    /\ tickState # state

(* What the documentation states about a configuration *)

InvalidComponent(c) == c.type \notin {"mean", "season", "arma"}

InvalidObservations(o) ==
    \/ o.type \notin {"continuous", "discrete", "categorical"}
    \/ /\ o.type = "categorical"
       /\ "values" \notin DOMAIN o
       /\ "categories" \notin DOMAIN o

InvalidUnit(u) ==
    \/ \E k \in DOMAIN u.structure : InvalidComponent(u.structure[k])
    \/ InvalidObservations(u.observations)

InvalidConfiguration(c) ==
    /\ c # NoConf
    /\ IF "compose" \in DOMAIN c
       THEN \E k \in DOMAIN c.compose : InvalidUnit(c.compose[k])
       ELSE InvalidUnit(c)

HasPartialAnomalies(c) ==
    /\ c # NoConf
    /\ IF "compose" \in DOMAIN c
       THEN \E k \in DOMAIN c.compose :
               \E j \in DOMAIN c.compose[k].structure :
                  PartialAnomalies(c.compose[k].structure[j])
       ELSE \E j \in DOMAIN c.structure : PartialAnomalies(c.structure[j])

\* C6: with an unrecognized component type, an unrecognized observation type
\* or a categorical observation spec with neither values nor categories (in
\* the single form or in any element of a compose list), the build phase
\* raises and the sink's send is never called.
C6_InvalidConfigurationNeverSends ==
    InvalidConfiguration(input) =>
        /\ pc \in {"start", "failed"}
        /\ sink.count = 0
        /\ sink.last = None
        /\ lastIO = "none"
        /\ pc = "failed" =>
              /\ IsError(ret)
              /\ ~HasPartialAnomalies(input) => ret.error = "ValueError"

C6_Witness ==
    /\ pc = "failed"
    /\ "compose" \in DOMAIN input
    /\ Len(input.compose) = 2
    /\ ~InvalidUnit(input.compose[1])
    /\ InvalidObservations(input.compose[2].observations)
    /\ ret = [error |-> "ValueError"]
    /\ sink.count = 0

\* C7: every application of an anomaly function built from a complete
\* anomalies block (probability p, scale s) is its own Bernoulli trial that
\* returns value * s or value: the entry is scaled exactly when the trial of
\* its own dimension fell below p, never with p = 0 and always with p = 1.
C7_BernoulliScaling ==
    (pc = "observe") =>
        \A i \in DOMAIN state :
            anomalies[i].kind = "scale" =>
                /\ _state[i] \in {state[i], state[i] * anomalies[i].scale}
                /\ anomalies[i].probability = 0 => _state[i] = state[i]
                /\ anomalies[i].probability = ProbUnit =>
                      _state[i] = state[i] * anomalies[i].scale
                /\ (_state[i] = state[i] * anomalies[i].scale)
                      <=> (draws[i] < anomalies[i].probability)

C7_Witness ==
    /\ pc = "observe"
    /\ Len(state) = 2
    /\ anomalies[1] = anomalies[2]
    /\ anomalies[1].kind = "scale"
    /\ 0 < anomalies[1].probability
    /\ anomalies[1].probability < ProbUnit
    /\ _state[1] = state[1]
    /\ _state[2] = state[2] * anomalies[2].scale

\* C10: once the build phase has succeeded the loop stays in Running
\* forever; every tick sends exactly one message built from the configured
\* name and that tick's observation, then sleeps for period; sends and
\* sleeps strictly alternate, and every send is eventually followed by a
\* sleep and another send.
C10_LoopForever ==
    /\ [][(pc \in Running) => (pc' \in Running)]_vars
    /\ [][(pc' \in Running) =>
            /\ name' = (IF input = NoConf THEN "data" ELSE input.name)
            /\ period' = (IF input = NoConf THEN 2 ELSE input.period)]_vars
    /\ [][(pc = "send") =>
            /\ lastIO # "send"
            /\ lastIO' = "send"
            /\ sink'.last = [name |-> name, value |-> y]
            /\ y = [by |-> model.kind, observed |-> _state]
            /\ pc' = "sleep"]_vars
    /\ [][(pc = "sleep") =>
            /\ lastIO = "send"
            /\ lastIO' = "sleep"
            /\ slept' = period
            /\ sink' = sink]_vars
    /\ [][(sink' # sink \/ lastIO' # lastIO) => pc \in {"send", "sleep"}]_vars
    /\ (pc \in Running) ~> (pc = "send")
    /\ (pc = "send") ~> (pc = "sleep" /\ lastIO = "send")

C10_Witness ==
    /\ pc = "perturb"
    /\ lastIO = "sleep"
    /\ sink.count = 2
    /\ slept = 1
    /\ sink.last.name = "series"

=============================================================================
